---- MODULE Spec2Model ----
(***************************************************************************)
(* Boids simulation of src/boids-py/main.py: the Boid class (kinematics,   *)
(* the four steering behaviours, boundary wrap), update_all_boids and the  *)
(* key handlers of the main loop.                                          *)
(*                                                                         *)
(* pygame.Vector2 holds floats.  Here every world quantity (position in    *)
(* px, velocity in px/s, force) is an integer number of whole units, a     *)
(* unit vector is an integer number of 1/UnitScale, a length that is used  *)
(* as a divisor is an integer number of 1/LenScale, and every product or   *)
(* quotient is rounded to the nearest representable value, as IEEE         *)
(* arithmetic rounds to the nearest float.  Comparisons of a length with   *)
(* a constant are made on the squares, which is exact.                     *)
(***************************************************************************)
EXTENDS Integers, Sequences, FiniteSets

\* ---------------------------------------------------------------- constants

WIDTH == 1070
HEIGHT == 800
MAX_SPEED == 240
MAX_FORCE == 200
PERCEPTION == 50
SEPARATION == 50
MOUSE_PERCEPTION == 100
MOUSE_FORCE == 30
\* boids.extend([Boid() for _ in range(10)])
GROW_COUNT == 10
\* for _ in range(min(10, len(boids))): boids.pop()
SHRINK_COUNT == 10
\* dt = clock.tick() / 1000.0
MS_PER_SECOND == 1000

\* ------------------------------------------------------------------- bounds

\* Resolution of a unit vector (normalize's result): 1/UnitScale.
UnitScale == 1000
\* Resolution of a length used as a divisor: 1/LenScale.
LenScale == 16
\* Frames the main loop runs.
MaxFrames == 2
\* Boid objects constructed over a run.
MaxBoids == 11
\* Calls of Boid.update over a run.
MaxUpdates == 10

\* ------------------------------------------------------------ Vector2 math

Vec(x, y) == [x |-> x, y |-> y]
Zero == Vec(0, 0)

Abs(a) == IF a < 0 THEN -a ELSE a

\* a / b (b > 0) rounded to the nearest integer, halves away from zero.
Round(a, b) == IF a >= 0 THEN (2 * a + b) \div (2 * b)
                         ELSE -((2 * (-a) + b) \div (2 * b))

RECURSIVE SqrtIter(_, _, _)
SqrtIter(n, lo, hi) ==
    IF lo >= hi THEN lo
    ELSE LET mid == (lo + hi + 1) \div 2
         IN  IF mid * mid <= n THEN SqrtIter(n, mid, hi)
                               ELSE SqrtIter(n, lo, mid - 1)

\* floor(sqrt(n)) for 0 <= n < 2^31
Isqrt(n) == SqrtIter(n, 0, 46340)

VAdd(a, b) == Vec(a.x + b.x, a.y + b.y)
VSub(a, b) == Vec(a.x - b.x, a.y - b.y)
VNeg(a) == Vec(-a.x, -a.y)

\* v / n for a count n
VDiv(v, n) == Vec(Round(v.x, n), Round(v.y, n))

LengthSq(v) == v.x * v.x + v.y * v.y

\* v.length(), in 1/LenScale of v's unit
Length(v) == Isqrt(LengthSq(v) * LenScale * LenScale)

\* v.length() > m
LongerThan(v, m) == LengthSq(v) > m * m

\* a.distance_to(b)
DistanceSq(a, b) == LengthSq(VSub(a, b))
Distance(a, b) == Length(VSub(a, b))

\* v.normalize(): pygame raises ValueError on a vector of length zero
NormalizeRaises(v) == v = Zero

\* v.normalize() for v # Zero: a unit vector, in 1/UnitScale
Normalize(v) ==
    LET len == Length(v)
    IN  Vec(Round(v.x * UnitScale * LenScale, len),
            Round(v.y * UnitScale * LenScale, len))

\* u * m for a unit vector u (in 1/UnitScale): a world vector
ScaleUnit(u, m) == Vec(Round(u.x * m, UnitScale), Round(u.y * m, UnitScale))

\* v * dt with dt = ms / 1000.0
ScaleDt(v, ms) == Vec(Round(v.x * ms, MS_PER_SECOND), Round(v.y * ms, MS_PER_SECOND))

\* Mutant of ClampForce: the force is returned as computed.
ClampForceOff(steering) == steering

\* if steering.length() > MAX_FORCE: steering = steering.normalize() * MAX_FORCE
ClampForce(steering) ==
    IF LongerThan(steering, MAX_FORCE)
    THEN ScaleUnit(Normalize(steering), MAX_FORCE)
    ELSE steering

\* -------------------------------------------------------------------- Boid

\* One result of the random calls of Boid.__init__: random.randint(0, WIDTH),
\* random.randint(0, HEIGHT) (both ends included), the raw direction
\* (uniform(-1, 1), uniform(-1, 1)) in 1/UnitScale, and uniform(1, MAX_SPEED).
Draw(px, py, dx, dy, speed) ==
    [position |-> Vec(px, py), direction |-> Vec(dx, dy), speed |-> speed]

\* The draws the model takes for a new boid: three boids on a line near the
\* origin, 14 px apart, and one on the far corner of the world.
RandomDraws ==
    { Draw(10, 10, 600, -800, 100),
      Draw(0, 0, -1000, 0, MAX_SPEED),
      Draw(20, 20, 600, 800, 1),
      Draw(WIDTH, HEIGHT, 300, 400, MAX_SPEED) }

\* Boid.__init__; id stands for the object's identity.  life_history is
\* never read or written after construction and is left out.
NewBoid(id, draw) ==
    [ id           |-> id,
      position     |-> draw.position,
      velocity     |-> ScaleUnit(Normalize(draw.direction), draw.speed),
      acceleration |-> Zero ]

\* boid != self and distance < radius and distance > 0
IsNeighbour(self, boids, k, radius) ==
    LET distance2 == DistanceSq(boids[self].position, boids[k].position)
    IN  boids[k].id # boids[self].id /\ distance2 < radius * radius /\ distance2 > 0

\* The loop of align over the first n boids: steering and total.
RECURSIVE AlignLoop(_, _, _)
AlignLoop(self, boids, n) ==
    IF n = 0 THEN [steering |-> Zero, total |-> 0]
    ELSE LET acc == AlignLoop(self, boids, n - 1)
         IN  IF IsNeighbour(self, boids, n, PERCEPTION)
             THEN [steering |-> VAdd(acc.steering, boids[n].velocity),
                   total    |-> acc.total + 1]
             ELSE acc

\* steering / total in align: the vector align passes to normalize
AlignAverage(acc) == VDiv(acc.steering, acc.total)

AlignRaises(self, boids) ==
    LET acc == AlignLoop(self, boids, Len(boids))
    IN  acc.total > 0 /\ NormalizeRaises(AlignAverage(acc))

\* Boid.align, when it does not raise
Align(self, boids) ==
    LET acc == AlignLoop(self, boids, Len(boids))
    IN  IF acc.total > 0
        THEN ClampForce(VSub(ScaleUnit(Normalize(AlignAverage(acc)), MAX_SPEED),
                             boids[self].velocity))
        ELSE Zero

\* The loop of cohesion over the first n boids.
RECURSIVE CohesionLoop(_, _, _)
CohesionLoop(self, boids, n) ==
    IF n = 0 THEN [steering |-> Zero, total |-> 0]
    ELSE LET acc == CohesionLoop(self, boids, n - 1)
         IN  IF IsNeighbour(self, boids, n, PERCEPTION)
             THEN [steering |-> VAdd(acc.steering, boids[n].position),
                   total    |-> acc.total + 1]
             ELSE acc

\* steering / total - self.position: the vector cohesion passes to normalize
CohesionOffset(acc, position) == VSub(VDiv(acc.steering, acc.total), position)

CohesionRaises(self, boids) ==
    LET acc == CohesionLoop(self, boids, Len(boids))
    IN  acc.total > 0 /\ NormalizeRaises(CohesionOffset(acc, boids[self].position))

\* Boid.cohesion, when it does not raise
Cohesion(self, boids) ==
    LET acc == CohesionLoop(self, boids, Len(boids))
    IN  IF acc.total > 0
        THEN ClampForce(VSub(ScaleUnit(Normalize(CohesionOffset(acc, boids[self].position)),
                                       MAX_SPEED),
                             boids[self].velocity))
        ELSE Zero

\* diff = self.position - boid.position; diff = diff.normalize() / distance
\* (in 1/UnitScale per px)
SeparationDiff(self, boids, k) ==
    LET diff     == Normalize(VSub(boids[self].position, boids[k].position))
        distance == Distance(boids[self].position, boids[k].position)
    IN  Vec(Round(diff.x * LenScale, distance), Round(diff.y * LenScale, distance))

\* The loop of separation over the first n boids.
RECURSIVE SeparationLoop(_, _, _)
SeparationLoop(self, boids, n) ==
    IF n = 0 THEN [steering |-> Zero, total |-> 0]
    ELSE LET acc == SeparationLoop(self, boids, n - 1)
         IN  IF IsNeighbour(self, boids, n, SEPARATION)
             THEN [steering |-> VAdd(acc.steering, SeparationDiff(self, boids, n)),
                   total    |-> acc.total + 1]
             ELSE acc

\* steering / total in separation: the vector separation passes to normalize
SeparationAverage(acc) == VDiv(acc.steering, acc.total)

SeparationRaises(self, boids) ==
    LET acc == SeparationLoop(self, boids, Len(boids))
    IN  acc.total > 0 /\ NormalizeRaises(SeparationAverage(acc))

\* Boid.separation, when it does not raise
Separation(self, boids) ==
    LET acc == SeparationLoop(self, boids, Len(boids))
    IN  IF acc.total > 0
        THEN ClampForce(VSub(ScaleUnit(Normalize(SeparationAverage(acc)), MAX_SPEED),
                             boids[self].velocity))
        ELSE Zero

\* distance < MOUSE_PERCEPTION and distance > 0
MouseInRange(position, mouse_pos) ==
    /\ DistanceSq(position, mouse_pos) < MOUSE_PERCEPTION * MOUSE_PERCEPTION
    /\ DistanceSq(position, mouse_pos) > 0

\* Boid.react_to_mouse
ReactToMouse(self, boids, mouse_pos, is_attracted) ==
    IF MouseInRange(boids[self].position, mouse_pos)
    THEN LET diff == Normalize(VSub(mouse_pos, boids[self].position))
         IN  ClampForce(IF is_attracted THEN ScaleUnit(diff, MOUSE_FORCE)
                                        ELSE ScaleUnit(VNeg(diff), MOUSE_FORCE))
    ELSE Zero

\* Boid.apply_behavior raises when one of its behaviours does
ApplyBehaviorRaises(self, boids) ==
    \/ AlignRaises(self, boids)
    \/ CohesionRaises(self, boids)
    \/ SeparationRaises(self, boids)

\* Boid.apply_behavior, when it does not raise: the boid afterwards
ApplyBehaviorOf(self, boids, mouse_pos, is_attracted) ==
    LET alignment      == Align(self, boids)
        cohesion       == Cohesion(self, boids)
        separation     == Separation(self, boids)
        mouse_reaction == ReactToMouse(self, boids, mouse_pos, is_attracted)
    IN  [boids[self] EXCEPT !.acceleration =
            VAdd(VAdd(VAdd(VAdd(@, alignment), cohesion), separation), mouse_reaction)]

\* self.velocity += self.acceleration * dt
UpdateVelocity(b, ms) == VAdd(b.velocity, ScaleDt(b.acceleration, ms))

\* Mutant of ClampSpeed: the speed is not limited.
ClampSpeedOff(v) == v

\* if self.velocity.length() > MAX_SPEED: normalize() * MAX_SPEED
ClampSpeed(v) ==
    IF LongerThan(v, MAX_SPEED) THEN ScaleUnit(Normalize(v), MAX_SPEED) ELSE v

\* Mutant of ResetAcceleration: the accumulator is kept.
ResetAccelerationOff(a) == a

\* self.acceleration *= 0
ResetAcceleration(a) == Vec(a.x * 0, a.y * 0)

\* Boid.update
UpdateOf(b, ms) ==
    LET velocity == ClampSpeed(UpdateVelocity(b, ms))
    IN  [b EXCEPT !.velocity     = velocity,
                  !.position     = VAdd(b.position, ScaleDt(velocity, ms)),
                  !.acceleration = ResetAcceleration(b.acceleration)]

\* Mutant of WrapAxis: the coordinate is clamped to the world, not wrapped.
WrapAxisClamped(c, extent) == IF c > extent THEN extent ELSE IF c < 0 THEN 0 ELSE c

\* One axis of Boid.edges
WrapAxis(c, extent) == IF c > extent THEN 0 ELSE IF c < 0 THEN extent ELSE c

\* Mutant of EdgesOf: only the x axis is wrapped.
EdgesOfXOnly(b) ==
    [b EXCEPT !.position = Vec(WrapAxis(b.position.x, WIDTH), b.position.y)]

\* Boid.edges
EdgesOf(b) ==
    [b EXCEPT !.position = Vec(WrapAxis(b.position.x, WIDTH),
                               WrapAxis(b.position.y, HEIGHT))]

\* ------------------------------------------------------------- the program

VARIABLES
    boids,          \* the list boids of the module
    is_attracted,   \* the attraction flag
    event,          \* the key of the event being handled, "NONE" between frames
    dt,             \* clock.tick() of the current frame, in ms
    mouse_pos,      \* pygame.mouse.get_pos() of the current frame
    pc,             \* where the main loop is: "events", or inside
                    \* update_all_boids at "apply_behavior", "update", "edges"
                    \* of boid idx, or "raised" after an uncaught ValueError
    idx,            \* the position of update_all_boids' loop in boids
    created,        \* Boid objects constructed so far
    frame,          \* frames started so far
    updates,        \* calls of Boid.update so far
    snapshot        \* boids as the current (or last) frame found them

vars == <<boids, is_attracted, event, dt, mouse_pos, pc, idx, created, frame, updates, snapshot>>

\* sys.argv[1] values taken for INITIAL_BOIDS
InitialCounts == 0 .. 3
\* clock.tick() values taken, in ms
DtChoices == {16, 1000}
\* pygame.mouse.get_pos() values taken
MouseChoices == {Vec(10, 10)}

Min(a, b) == IF a < b THEN a ELSE b

\* [Boid() for _ in range(n)] with the first object's identity first and the
\* draws of each boid given by draws
Boids(first, n, draws) == [k \in 1 .. n |-> NewBoid(first + k - 1, draws[k])]

\* boids = [Boid() for _ in range(INITIAL_BOIDS)]; is_attracted = False
Init ==
    /\ \E n \in InitialCounts : \E draws \in [1 .. n -> RandomDraws] :
          /\ boids = Boids(1, n, draws)
          /\ created = n
    /\ is_attracted = FALSE
    /\ event = "NONE"
    /\ dt = 0
    /\ mouse_pos = Zero
    /\ pc = "events"
    /\ idx = 0
    /\ frame = 0
    /\ updates = 0
    /\ snapshot = << >>

\* boids.extend([Boid() for _ in range(10)]): the list afterwards.  The ten
\* draws alternate between two draws a and b.
Extended(list, first, a, b) ==
    list \o Boids(first, GROW_COUNT, [k \in 1 .. GROW_COUNT |-> IF k % 2 = 1 THEN a ELSE b])

\* Mutant of Popped: one boid is popped.
PoppedOnce(list) == SubSeq(list, 1, Len(list) - Min(1, Len(list)))

\* for _ in range(min(10, len(boids))): boids.pop(): the list afterwards
Popped(list) == SubSeq(list, 1, Len(list) - Min(SHRINK_COUNT, Len(list)))

\* event.key == pygame.K_SPACE
KeySpace ==
    /\ pc = "events"
    /\ is_attracted' = ~is_attracted
    /\ event' = "K_SPACE"
    /\ UNCHANGED <<boids, dt, mouse_pos, pc, idx, created, frame, updates, snapshot>>

\* event.key == pygame.K_UP
KeyUp ==
    /\ pc = "events"
    /\ created + GROW_COUNT <= MaxBoids
    /\ \E a \in RandomDraws, b \in RandomDraws :
          boids' = Extended(boids, created + 1, a, b)
    /\ created' = created + GROW_COUNT
    /\ event' = "K_UP"
    /\ UNCHANGED <<is_attracted, dt, mouse_pos, pc, idx, frame, updates, snapshot>>

\* event.key == pygame.K_DOWN
KeyDown ==
    /\ pc = "events"
    /\ boids' = Popped(boids)
    /\ event' = "K_DOWN"
    /\ UNCHANGED <<is_attracted, dt, mouse_pos, pc, idx, created, frame, updates, snapshot>>

\* The event queue is drained: mouse_pos is read and update_all_boids called
\* with the dt of this frame.
BeginFrame ==
    /\ pc = "events"
    /\ frame < MaxFrames
    /\ updates + Len(boids) <= MaxUpdates
    /\ \E ms \in DtChoices : dt' = ms
    /\ \E m \in MouseChoices : mouse_pos' = m
    /\ event' = "NONE"
    /\ frame' = frame + 1
    /\ snapshot' = boids
    /\ idx' = IF Len(boids) = 0 THEN 0 ELSE 1
    /\ pc' = IF Len(boids) = 0 THEN "events" ELSE "apply_behavior"
    /\ UNCHANGED <<boids, is_attracted, created, updates>>

\* boid.apply_behavior(boids, mouse_pos, is_attracted) of update_all_boids
ApplyBehavior ==
    /\ pc = "apply_behavior"
    /\ IF ApplyBehaviorRaises(idx, boids)
       THEN /\ pc' = "raised"
            /\ UNCHANGED boids
       ELSE /\ pc' = "update"
            /\ boids' = [boids EXCEPT ![idx] =
                            ApplyBehaviorOf(idx, boids, mouse_pos, is_attracted)]
    /\ UNCHANGED <<is_attracted, event, dt, mouse_pos, idx, created, frame, updates, snapshot>>

\* boid.update(dt) of update_all_boids
Update ==
    /\ pc = "update"
    /\ boids' = [boids EXCEPT ![idx] = UpdateOf(boids[idx], dt)]
    /\ pc' = "edges"
    /\ updates' = updates + 1
    /\ UNCHANGED <<is_attracted, event, dt, mouse_pos, idx, created, frame, snapshot>>

\* boid.edges() of update_all_boids, and the loop's next boid
Edges ==
    /\ pc = "edges"
    /\ boids' = [boids EXCEPT ![idx] = EdgesOf(boids[idx])]
    /\ IF idx < Len(boids)
       THEN /\ idx' = idx + 1
            /\ pc' = "apply_behavior"
       ELSE /\ idx' = 0
            /\ pc' = "events"
    /\ UNCHANGED <<is_attracted, event, dt, mouse_pos, created, frame, updates, snapshot>>

Next ==
    \/ KeySpace
    \/ KeyUp
    \/ KeyDown
    \/ BeginFrame
    \/ ApplyBehavior
    \/ Update
    \/ Edges

Spec == Init /\ [][Next]_vars

\* update_all_boids from boid k on, as one function of the list: the list
\* afterwards, and whether a behaviour raised on the way
RECURSIVE UpdateAllBoids(_, _, _, _, _)
UpdateAllBoids(list, k, ms, mouse, attracted) ==
    IF k > Len(list) THEN [raised |-> FALSE, boids |-> list]
    ELSE IF ApplyBehaviorRaises(k, list) THEN [raised |-> TRUE, boids |-> list]
    ELSE LET b == EdgesOf(UpdateOf(ApplyBehaviorOf(k, list, mouse, attracted), ms))
         IN  UpdateAllBoids([list EXCEPT ![k] = b], k + 1, ms, mouse, attracted)

\* The actions apply_behavior, update and edges compose to UpdateAllBoids.
FrameIsUpdateAllBoids ==
    (pc \in {"events", "raised"} /\ frame > 0) =>
        LET r == UpdateAllBoids(snapshot, 1, dt, mouse_pos, is_attracted)
        IN  r.raised = (pc = "raised") /\ (event = "NONE" => r.boids = boids)

\* ------------------------------------------------------------ properties

\* |v| <= m to within one unit of the representation (the rounding of
\* normalize() * m, the spec's "floating tolerance")
AtMost(v, m) == LengthSq(v) <= (m + 1) * (m + 1)

\* |v| = m to within one unit of the representation
About(v, m) == LengthSq(v) >= (m - 1) * (m - 1) /\ AtMost(v, m)

\* w points where v points, to within one unit in each coordinate of w
SameDirection(v, w) ==
    /\ v.x * w.x + v.y * w.y > 0
    /\ Abs(v.x * w.y - v.y * w.x) <= Abs(v.x) + Abs(v.y)

InWorldClosed(position) ==
    /\ 0 <= position.x /\ position.x <= WIDTH
    /\ 0 <= position.y /\ position.y <= HEIGHT

InWorldHalfOpen(position) ==
    /\ 0 <= position.x /\ position.x < WIDTH
    /\ 0 <= position.y /\ position.y < HEIGHT

Ids(list) == [k \in 1 .. Len(list) |-> list[k].id]

\* The boids update_all_boids has finished with in the current frame.
Moved(k) == pc \in {"apply_behavior", "update", "edges"} /\ k < idx

\* C1: in a step over two or more agents every force computation reads the
\* positions and velocities of the pre-step snapshot: when apply_behavior
\* runs for a boid, no other boid has been integrated or wrapped in this
\* step.
C1_ForcesReadSnapshot ==
    pc = "apply_behavior" =>
        \A k \in 1 .. Len(boids) :
            k # idx => /\ boids[k].position = snapshot[k].position
                       /\ boids[k].velocity = snapshot[k].velocity

\* C2: normalize is never called on a zero vector: no behaviour of the boid
\* at apply_behavior passes one, update's clamp does not, and no ValueError
\* has been raised.
C2_NormalizeNeverOnZero ==
    /\ pc # "raised"
    /\ pc = "apply_behavior" => ~ApplyBehaviorRaises(idx, boids)
    /\ pc = "update" =>
          (LongerThan(UpdateVelocity(boids[idx], dt), MAX_SPEED)
              => ~NormalizeRaises(UpdateVelocity(boids[idx], dt)))

\* C3: every boid's speed is at most MAX_SPEED in every state, and an update
\* whose speed before the clamp exceeds MAX_SPEED leaves a velocity of length
\* MAX_SPEED in the same direction (both to within one unit, the rounding of
\* normalize() * MAX_SPEED).
C3_SpeedBounded ==
    /\ \A k \in 1 .. Len(boids) : AtMost(boids[k].velocity, MAX_SPEED)
    /\ pc = "update" =>
          LET before == UpdateVelocity(boids[idx], dt)
              after  == UpdateOf(boids[idx], dt).velocity
          IN  LongerThan(before, MAX_SPEED) =>
                  About(after, MAX_SPEED) /\ SameDirection(before, after)

\* The clamp of update acts: a boid about to be updated whose speed before
\* the clamp exceeds MAX_SPEED.
C3_Witness ==
    /\ pc = "update"
    /\ LongerThan(UpdateVelocity(boids[idx], dt), MAX_SPEED)

\* C4: each behaviour that returns, returns a force of length at most
\* MAX_FORCE (to within one unit): align, cohesion and separation of the boid
\* at apply_behavior over the population as it is, react_to_mouse of every
\* boid for every pointer position taken and both modes.
C4_ForceBounded ==
    /\ pc = "apply_behavior" =>
          /\ ~AlignRaises(idx, boids) => AtMost(Align(idx, boids), MAX_FORCE)
          /\ ~CohesionRaises(idx, boids) => AtMost(Cohesion(idx, boids), MAX_FORCE)
          /\ ~SeparationRaises(idx, boids) => AtMost(Separation(idx, boids), MAX_FORCE)
    /\ \A k \in 1 .. Len(boids) : \A m \in MouseChoices \cup {Vec(60, 90), Vec(WIDTH - 1, HEIGHT - 1)} :
          \A attracted \in BOOLEAN :
              AtMost(ReactToMouse(k, boids, m, attracted), MAX_FORCE)

\* The clamp of a behaviour acts: align returns a force of length MAX_FORCE,
\* and the pointer's force is not zero.
C4_Witness ==
    /\ pc = "apply_behavior"
    /\ ~ApplyBehaviorRaises(idx, boids)
    /\ About(Align(idx, boids), MAX_FORCE)
    /\ About(Cohesion(idx, boids), MAX_FORCE)
    /\ About(Separation(idx, boids), MAX_FORCE)
    /\ About(ReactToMouse(idx, boids, mouse_pos, is_attracted), MOUSE_FORCE)

\* C5 as stated: between steps every position lies in the half-open
\* rectangle [0, WIDTH) x [0, HEIGHT).
C5_HalfOpen ==
    pc = "events" => \A k \in 1 .. Len(boids) : InWorldHalfOpen(boids[k].position)

\* C5 amended: between steps, and for every boid but the one between its
\* update and its edges, the position lies in the closed rectangle
\* [0, WIDTH] x [0, HEIGHT].
C5_Closed ==
    \A k \in 1 .. Len(boids) :
        (pc = "edges" /\ k = idx) \/ InWorldClosed(boids[k].position)

\* A frame is over in which a boid left the world on the right and was put
\* on x = 0, and one in which a boid left it on the left and is on x = WIDTH.
C5_Witness ==
    /\ pc = "events" /\ event = "NONE" /\ frame > 0
    /\ \E k \in 1 .. Len(boids) :
          snapshot[k].position.x = WIDTH /\ boids[k].position.x = 0
    /\ \E k \in 1 .. Len(boids) :
          snapshot[k].position.x = 0 /\ boids[k].position.x = WIDTH

\* C6: edges wraps each axis on its own: a coordinate above the extent
\* becomes 0, one below 0 becomes the extent, one in [0, extent] stays; the
\* velocity and the acceleration stay.
C6_EdgesWraps ==
    [][pc = "edges" =>
        LET before == boids[idx]
            after  == boids'[idx]
        IN  /\ before.position.x > WIDTH => after.position.x = 0
            /\ before.position.x < 0 => after.position.x = WIDTH
            /\ (0 <= before.position.x /\ before.position.x <= WIDTH)
                  => after.position.x = before.position.x
            /\ before.position.y > HEIGHT => after.position.y = 0
            /\ before.position.y < 0 => after.position.y = HEIGHT
            /\ (0 <= before.position.y /\ before.position.y <= HEIGHT)
                  => after.position.y = before.position.y
            /\ after.velocity = before.velocity
            /\ after.acceleration = before.acceleration
            /\ Len(boids') = Len(boids)
            /\ \A k \in 1 .. Len(boids) : k # idx => boids'[k] = boids[k]]_vars

\* edges has wrapped one axis and left the other: a boid that update_all_boids
\* has finished with is on y = HEIGHT, having started the frame on y < 40
\* going up, with its x inside the world and not 0 or WIDTH.
C6_Witness ==
    \E k \in 1 .. Len(boids) :
        /\ Moved(k)
        /\ snapshot[k].position.y < 40 /\ snapshot[k].velocity.y < 0
        /\ boids[k].position.y = HEIGHT
        /\ boids[k].position.x > 0 /\ boids[k].position.x < WIDTH

\* C7: the population is never negative; K_UP raises it by exactly
\* GROW_COUNT, K_DOWN lowers it by min(SHRINK_COUNT, size) from the end of
\* the list, and a step of update_all_boids (or K_SPACE) leaves the boids and
\* their order as they are.
C7_PopulationChanges ==
    [][/\ Len(boids') >= 0
       /\ (pc = "events" /\ event' = "K_UP") =>
             /\ Len(boids') = Len(boids) + GROW_COUNT
             /\ SubSeq(Ids(boids'), 1, Len(boids)) = Ids(boids)
       /\ (pc = "events" /\ event' = "K_DOWN") =>
             /\ Len(boids') = Len(boids) - Min(SHRINK_COUNT, Len(boids))
             /\ Ids(boids') = SubSeq(Ids(boids), 1, Len(boids'))
       /\ (pc # "events" \/ event' \in {"NONE", "K_SPACE"}) =>
             Ids(boids') = Ids(boids)]_vars

\* K_DOWN has emptied a flock of fewer than SHRINK_COUNT boids.
C7_Witness ==
    /\ event = "K_DOWN"
    /\ Len(boids) = 0
    /\ created > 0 /\ created < SHRINK_COUNT

Injective(p) == \A i \in DOMAIN p : \A j \in DOMAIN p : p[i] = p[j] => i = j
Permutations(n) == {p \in [1 .. n -> 1 .. n] : Injective(p)}

\* C9: the order of the list does not matter: for every permutation of the
\* list between frames, every dt, pointer and mode taken, update_all_boids
\* leaves each boid with the position and velocity it leaves it with in the
\* list's own order (and raises in both or in neither).
C9_OrderIrrelevant ==
    pc = "events" =>
        \A p \in Permutations(Len(boids)) :
            \A ms \in DtChoices : \A m \in MouseChoices : \A attracted \in BOOLEAN :
                LET own      == UpdateAllBoids(boids, 1, ms, m, attracted)
                    permuted == UpdateAllBoids([k \in 1 .. Len(boids) |-> boids[p[k]]],
                                               1, ms, m, attracted)
                IN  /\ own.raised = permuted.raised
                    /\ \A k \in 1 .. Len(boids) :
                          /\ permuted.boids[k].id = own.boids[p[k]].id
                          /\ permuted.boids[k].position = own.boids[p[k]].position
                          /\ permuted.boids[k].velocity = own.boids[p[k]].velocity

\* C10: between steps every acceleration is zero, and the acceleration that
\* update integrates is the sum of the four forces of this step's
\* apply_behavior (which changes no position or velocity).
C10_AccelerationTransient ==
    /\ pc = "events" => \A k \in 1 .. Len(boids) : boids[k].acceleration = Zero
    /\ pc = "update" =>
          boids[idx].acceleration =
              VAdd(VAdd(VAdd(Align(idx, boids), Cohesion(idx, boids)),
                        Separation(idx, boids)),
                   ReactToMouse(idx, boids, mouse_pos, is_attracted))

\* update is about to integrate a non-zero acceleration in a frame that is
\* not the first.
C10_Witness ==
    /\ pc = "update"
    /\ frame > 1
    /\ boids[idx].acceleration # Zero

====
